---- MODULE Spec2Model ----
(***************************************************************************)
(* Model of src/services/cloudflare.ts: the module-level startup sequence  *)
(* (API_KEY), verifyToken, request (cache check, retry driver, status      *)
(* check, envelope unwrapping, cache store) and retriedRequest.            *)
(*                                                                         *)
(* A call of request is a slot of `call`.  Slot 0 is the dispatch that     *)
(* verifyToken starts at startup; slots 1..MaxCalls are dispatches issued  *)
(* by callers once the module has been evaluated.  Every await of the      *)
(* source is a point where the other slots and the clock may move.         *)
(*                                                                         *)
(* As in every caller of request in the module, no body is passed, so      *)
(* JSON.stringify never throws and each loop iteration of retriedRequest   *)
(* does call fetch; slot 0 passes its token, so API_KEY is not read before *)
(* it is initialised.  Date.now() is taken as non-decreasing.              *)
(***************************************************************************)
EXTENDS Integers, Naturals, FiniteSets, Sequences, TLC

\* ---- bounds of the model ------------------------------------------------
MaxCalls == 2
MaxTtl == 1
MaxNow == 1001

\* ---- program constants --------------------------------------------------
MaxTries == 10
MsPerSecond == 1000

\* ---- value spaces -------------------------------------------------------
None == "none"
NoSlot == 0 - 1
VerifyPath == "user/tokens/verify"
Paths == {"zones"}
AllPaths == Paths \cup {VerifyPath}
Ttls == 0..MaxTtl
Results == {"r1", "r2"}
Statuses == {200, 401, 500}
Methods == {"GET", "POST"}
\* The token argument of request: absent (API_KEY is sent), or a token of the caller.
Tokens == {None, "other"}
WideTtls == 0..(MaxTtl + 1)
\* The optional headers and body arguments of request: absent, or given.
HeaderSets == {None, "extra"}
RequestBodies == {None, "payload"}
EnvValues == {None, "key"}
Slots == 0..MaxCalls
Callers == 1..MaxCalls
\* The clock is sampled at its start and from one millisecond before the first
\* second boundary on, where expiry is decided.
Instants == {t \in 0..MaxNow : t = 0 \/ t >= MsPerSecond - 1}

\* A response body: text that is no JSON, or the envelope { success, result }.
NoBody == [kind |-> None, success |-> FALSE, result |-> None]
Unparsable == [kind |-> "text", success |-> FALSE, result |-> None]
Envelopes == {[kind |-> "json", success |-> ok, result |-> r] : ok \in BOOLEAN, r \in Results}
Bodies == {Unparsable} \cup Envelopes

NoEntry == [result |-> None, time |-> 0 - 1]
NoErr == <<>>
\* pc, method, path, token, ttl: the activation of request.  tries, fetches: the activation of
\* retriedRequest (tries is its local, fetches counts its calls of fetch); they
\* end with it.  status, body: the response this dispatch obtained.
\* out, result, err: how the promise of request settled.
IdleCall == [pc |-> "idle", method |-> None, path |-> None, token |-> None, ttl |-> 0,
             tries |-> 0, fetches |-> 0,
             status |-> 0, body |-> NoBody, out |-> None, result |-> None, err |-> NoErr]

VARIABLES envKey, main, API_KEY, valid, call, cache, now, lastDone
vars == <<envKey, main, API_KEY, valid, call, cache, now, lastDone>>

\* ---- pure parts of request / retriedRequest ------------------------------
\* Mutant of cacheExists: cache.get(endpoint) !== null, true of a missing key.
cacheExistsNotNull(store, endpoint) == TRUE

\* cache.has(endpoint)
cacheExists(store, endpoint) == store[endpoint] # NoEntry

\* Mutant of cacheExpired: the ttl is taken as milliseconds.
cacheExpiredUnscaled(store, endpoint, t, cacheTimeSeconds) ==
    /\ cacheExists(store, endpoint)
    /\ store[endpoint].time < t - cacheTimeSeconds

\* Mutant of cacheExpired: an entry exactly ttl old counts as expired.
cacheExpiredAtBoundary(store, endpoint, t, cacheTimeSeconds) ==
    /\ cacheExists(store, endpoint)
    /\ store[endpoint].time <= t - MsPerSecond * cacheTimeSeconds

\* cacheExists && cache.get(endpoint).time.getTime() < Date.now() - 1000 * cacheTimeSeconds
cacheExpired(store, endpoint, t, cacheTimeSeconds) ==
    /\ cacheExists(store, endpoint)
    /\ store[endpoint].time < t - MsPerSecond * cacheTimeSeconds

\* Mutant of cacheHit: an entry is served whatever its age.
cacheHitAnyAge(store, endpoint, t, cacheTimeSeconds) == cacheExists(store, endpoint)

\* if (cacheExists && !cacheExpired) return cache.get(endpoint).result
cacheHit(store, endpoint, t, cacheTimeSeconds) ==
    /\ cacheExists(store, endpoint)
    /\ ~cacheExpired(store, endpoint, t, cacheTimeSeconds)

\* Mutant of loopCond: the bound is off by one.
loopCondOneMore(hasResponse, tries) == ~hasResponse /\ tries <= MaxTries

\* Mutant of loopCond: the loop goes on although a response was obtained.
loopCondIgnoresResponse(hasResponse, tries) == tries < MaxTries

\* while (!response && tries < 10)
loopCond(hasResponse, tries) == ~hasResponse /\ tries < MaxTries

\* Mutant of triesAfterFailure: the counter wraps around before the bound.
triesAfterFailureWrapping(tries) == (tries + 1) % MaxTries

\* catch (err) { tries++; continue }
triesAfterFailure(tries) == tries + 1

\* Mutant of responseOk: only server errors count as failures.
responseOkBelow500(status) == status >= 200 /\ status < 500

\* response.ok of node-fetch: status in the range 200-299
responseOk(status) == status >= 200 /\ status < 300

\* new Error('Failed to send request to Cloudflare API.')
TransportExhausted == <<"Failed to send request to Cloudflare API.">>

\* new Error(`Failed to send request to Cloudflare API on path ${endpoint} with status ${response.status}.`)
ApiError(endpoint, status) == <<"Failed to send request to Cloudflare API on path", endpoint, status>>

\* the rejection of response.json() on a body that is no JSON
ParseError == <<"SyntaxError">>

\* Mutant of onNoResponse: a stored entry is returned as a fallback.
onNoResponseStale(store, endpoint) ==
    IF store[endpoint] # NoEntry
    THEN [out |-> "ok", result |-> store[endpoint].result, err |-> NoErr]
    ELSE [out |-> "error", result |-> None, err |-> TransportExhausted]

\* if (!response) throw new Error(...): how request settles without a response
onNoResponse(store, endpoint) == [out |-> "error", result |-> None, err |-> TransportExhausted]

\* Mutant of unwrap: the result is taken only from an envelope that reports success.
unwrapIfSuccess(json) == IF json.success THEN json.result ELSE None

\* json.result
unwrap(json) == json.result

\* One more call of fetch, counted up to one past the retry budget.
invoked(fetches) == IF fetches <= MaxTries THEN fetches + 1 ELSE fetches

\* Mutant of storeResult: the result is stored whatever the ttl.
storeResultAlways(store, endpoint, result, t, cacheTimeSeconds) ==
    [store EXCEPT ![endpoint] = [result |-> result, time |-> t]]

\* Mutant of storeResult: a dispatch with ttl 0 clears the entry of its path.
storeResultClearing(store, endpoint, result, t, cacheTimeSeconds) ==
    IF cacheTimeSeconds > 0
    THEN [store EXCEPT ![endpoint] = [result |-> result, time |-> t]]
    ELSE [store EXCEPT ![endpoint] = NoEntry]

\* Mutant of storeResult: an entry that exists is not overwritten.
storeResultIfAbsent(store, endpoint, result, t, cacheTimeSeconds) ==
    IF cacheTimeSeconds > 0 /\ store[endpoint] = NoEntry
    THEN [store EXCEPT ![endpoint] = [result |-> result, time |-> t]]
    ELSE store

\* if (cacheTimeSeconds > 0) cache.set(endpoint, { result: json.result, time: new Date() })
storeResult(store, endpoint, result, t, cacheTimeSeconds) ==
    IF cacheTimeSeconds > 0
    THEN [store EXCEPT ![endpoint] = [result |-> result, time |-> t]]
    ELSE store

\* try { request(...); return true } catch { return false }
\* `threw` is whether the call expression request(...) threw synchronously.
verifyToken(threw) == IF threw THEN FALSE ELSE TRUE

\* Mutant of servedFromCache: only a GET is served from the cache.
servedFromCacheGetOnly(method, endpoint, headers, body, token, store, t, cacheTimeSeconds) ==
    method = "GET" /\ cacheHit(store, endpoint, t, cacheTimeSeconds)

\* Mutant of servedFromCache: a dispatch with its own token is not served.
servedFromCacheOwnToken(method, endpoint, headers, body, token, store, t, cacheTimeSeconds) ==
    token = None /\ cacheHit(store, endpoint, t, cacheTimeSeconds)

\* Mutant of servedFromCache: a dispatch that carries a body is not served.
servedFromCacheNoBody(method, endpoint, headers, body, token, store, t, cacheTimeSeconds) ==
    body = None /\ cacheHit(store, endpoint, t, cacheTimeSeconds)

\* Lines 64-66 as a function of the arguments of request: of method, headers,
\* body and token, none is read before the return of the cached result.
servedFromCache(method, endpoint, headers, body, token, store, t, cacheTimeSeconds) ==
    cacheHit(store, endpoint, t, cacheTimeSeconds)

\* ---- request, up to its first await ---------------------------------------
\* The synchronous prefix of request(): the cache check and, on a miss, the
\* first iteration of retriedRequest up to `await fetch(...)`.
requestStart(c, method, endpoint, headers, body, token, cacheTimeSeconds) ==
    LET args == [IdleCall EXCEPT !.method = method, !.path = endpoint, !.token = token,
                                 !.ttl = cacheTimeSeconds]
    IN  IF servedFromCache(method, endpoint, headers, body, token, cache, now, cacheTimeSeconds)
        THEN /\ call' = [call EXCEPT ![c] = [args EXCEPT !.pc = "done", !.out = "hit",
                            !.result = cache[endpoint].result]]
             /\ lastDone' = c
        ELSE /\ call' = [call EXCEPT ![c] = [args EXCEPT !.pc = "fetch", !.fetches = 1]]
             /\ lastDone' = lastDone

Running == main # "exited"

\* ---- startup (lines 110-126) ----------------------------------------------
\* process.env.CLOUDFLARE_API_KEY is read; absent: process.exit(1); present:
\* verifyToken(API_KEY) runs up to its return, which starts slot 0.
LoadKey ==
    /\ main = "load"
    /\ IF envKey = None
       THEN /\ main' = "exited"
            /\ UNCHANGED <<call, lastDone>>
       ELSE /\ main' = "awaitVerify"
            /\ requestStart(0, "GET", VerifyPath, None, None, envKey, 0)
    /\ UNCHANGED <<envKey, API_KEY, valid, cache, now>>

\* `const valid = await verifyToken(API_KEY)` resumes; request(...) is an async
\* function, so the call expression inside the try block never throws.
VerifyReturns ==
    /\ main = "awaitVerify"
    /\ valid' = <<verifyToken(FALSE)>>
    /\ IF valid'[1]
       THEN main' = "ready" /\ API_KEY' = envKey
       ELSE main' = "exited" /\ API_KEY' = API_KEY
    /\ UNCHANGED <<envKey, call, cache, now, lastDone>>

\* ---- dispatches issued by callers -----------------------------------------
Issue(c, endpoint, cacheTimeSeconds) ==
    /\ main = "ready"
    /\ call[c].pc = "idle"
    /\ requestStart(c, "GET", endpoint, None, None, None, cacheTimeSeconds)
    /\ UNCHANGED <<envKey, main, API_KEY, valid, cache, now>>

\* fetch rejects (line 98): tries++, then the loop condition; either the next
\* fetch is invoked or retriedRequest returns undefined and request throws.
FetchFails(c) ==
    /\ Running
    /\ call[c].pc = "fetch"
    /\ LET t == triesAfterFailure(call[c].tries) IN
       IF loopCond(FALSE, t)
       THEN /\ call' = [call EXCEPT ![c].tries = t, ![c].fetches = invoked(@)]
            /\ lastDone' = lastDone
       ELSE /\ LET r == onNoResponse(cache, call[c].path) IN
               call' = [call EXCEPT ![c].tries = 0, ![c].fetches = 0, ![c].pc = "done",
                           ![c].out = r.out, ![c].result = r.result, ![c].err = r.err]
            /\ lastDone' = c
    /\ UNCHANGED <<envKey, main, API_KEY, valid, cache, now>>

\* fetch resolves with a response of the given status (line 89); the loop
\* condition, then the return of retriedRequest and the status check of
\* request (lines 104, 70-71).
FetchResponds(c, status) ==
    /\ Running
    /\ call[c].pc = "fetch"
    /\ IF loopCond(TRUE, call[c].tries)
       THEN /\ call' = [call EXCEPT ![c].status = status, ![c].fetches = invoked(@)]
            /\ lastDone' = lastDone
       ELSE IF responseOk(status)
       THEN /\ call' = [call EXCEPT ![c].tries = 0, ![c].fetches = 0, ![c].pc = "json",
                           ![c].status = status]
            /\ lastDone' = lastDone
       ELSE /\ call' = [call EXCEPT ![c].tries = 0, ![c].fetches = 0, ![c].pc = "done",
                           ![c].status = status, ![c].out = "error",
                           ![c].err = ApiError(call[c].path, status)]
            /\ lastDone' = c
    /\ UNCHANGED <<envKey, main, API_KEY, valid, cache, now>>

\* `await response.json()` settles with the body the response carried; then
\* the cache store and the return (lines 73-76).
JsonSettles(c, body) ==
    /\ Running
    /\ call[c].pc = "json"
    /\ IF body.kind # "json"
       THEN /\ call' = [call EXCEPT ![c].pc = "done", ![c].body = body, ![c].out = "error",
                           ![c].err = ParseError]
            /\ cache' = cache
       ELSE /\ call' = [call EXCEPT ![c].pc = "done", ![c].body = body, ![c].out = "ok",
                           ![c].result = unwrap(body)]
            /\ cache' = storeResult(cache, call[c].path, unwrap(body), now, call[c].ttl)
    /\ lastDone' = c
    /\ UNCHANGED <<envKey, main, API_KEY, valid, now>>

\* The caller has consumed the settled promise; the slot is free again.
Collect(c) ==
    /\ Running
    /\ call[c].pc = "done"
    /\ call' = [call EXCEPT ![c] = IdleCall]
    /\ lastDone' = IF lastDone = c THEN NoSlot ELSE lastDone
    /\ UNCHANGED <<envKey, main, API_KEY, valid, cache, now>>

\* Date.now() advances.
Tick ==
    /\ Running
    /\ \E t \in Instants : t > now /\ now' = t
    /\ UNCHANGED <<envKey, main, API_KEY, valid, call, cache, lastDone>>

\* The promise of slot 0 has no handler (verifyToken does not await it): when
\* it rejects, the rejection is unhandled.  What Node does then depends on the
\* runtime's --unhandled-rejections mode: it terminates the process (this
\* action) or only warns (the action is not taken).
UnhandledRejection ==
    /\ Running
    /\ call[0].pc = "done"
    /\ call[0].out = "error"
    /\ main' = "exited"
    /\ UNCHANGED <<envKey, API_KEY, valid, call, cache, now, lastDone>>

Init ==
    /\ envKey \in EnvValues
    /\ main = "load"
    /\ API_KEY = None
    /\ valid = <<>>
    /\ call = [c \in Slots |-> IdleCall]
    /\ cache = [p \in AllPaths |-> NoEntry]
    /\ now = 0
    /\ lastDone = NoSlot

Next ==
    \/ LoadKey
    \/ VerifyReturns
    \/ \E c \in Callers, p \in Paths, s \in Ttls : Issue(c, p, s)
    \/ \E c \in Slots : FetchFails(c)
    \/ \E c \in Slots, st \in Statuses : FetchResponds(c, st)
    \/ \E c \in Slots, b \in Bodies : JsonSettles(c, b)
    \/ \E c \in Callers : Collect(c)
    \/ Tick
    \/ UnhandledRejection

Spec == Init /\ [][Next]_vars

\* ---- liveness specification ------------------------------------------------
\* The verification dispatch and one caller slot run concurrently.  Every call
\* of fetch settles (it rejects or resolves) and every body read settles.
LiveSlots == {0, 1}
Attempt(c) == FetchFails(c) \/ \E st \in Statuses : FetchResponds(c, st)
Settle(c) == \E b \in Bodies : JsonSettles(c, b)

LiveNext ==
    \/ LoadKey
    \/ VerifyReturns
    \/ \E p \in Paths, s \in Ttls : Issue(1, p, s)
    \/ \E c \in LiveSlots : FetchFails(c)
    \/ \E c \in LiveSlots, st \in Statuses : FetchResponds(c, st)
    \/ \E c \in LiveSlots, b \in Bodies : JsonSettles(c, b)
    \/ Collect(1)
    \/ Tick
    \/ UnhandledRejection

LiveSpec ==
    /\ Init
    /\ [][LiveNext]_vars
    /\ \A c \in LiveSlots : WF_vars(Attempt(c)) /\ WF_vars(Settle(c))

\* ---- specification of the arguments of request --------------------------------
\* request with any method and token and a wider range of ttl, as its signature
\* allows.  Here every call of fetch is answered with status 200 and an envelope
\* that reports success; failed calls and failing responses are in Spec.
IssueAny(c, method, endpoint, headers, body, token, cacheTimeSeconds) ==
    /\ main = "ready"
    /\ call[c].pc = "idle"
    /\ requestStart(c, method, endpoint, headers, body, token, cacheTimeSeconds)
    /\ UNCHANGED <<envKey, main, API_KEY, valid, cache, now>>

WideNext ==
    \/ LoadKey
    \/ VerifyReturns
    \/ \E c \in Callers, m \in Methods, p \in Paths, h \in HeaderSets,
          b \in RequestBodies, k \in Tokens, s \in WideTtls :
          IssueAny(c, m, p, h, b, k, s)
    \/ \E c \in Slots : FetchResponds(c, 200)
    \/ \E c \in Slots, b \in {e \in Envelopes : e.success} : JsonSettles(c, b)
    \/ \E c \in Callers : Collect(c)
    \/ Tick

WideSpec == Init /\ [][WideNext]_vars

\* ---- steps, as seen from outside -------------------------------------------
Issued(c) == call[c].pc = "idle" /\ call'[c].pc # "idle"
Completed(c) == call[c].pc # "done" /\ call'[c].pc = "done"
Succeeded(r) == r.pc = "done" /\ r.out \in {"ok", "hit"}
Failed(r) == r.pc = "done" /\ r.out = "error"
SuccessStatus(status) == status \in 200..299

\* ---- C1 ---------------------------------------------------------------------
\* C1 (as claimed): once the verification dispatch has completed, the boolean
\* verify yielded is true exactly when that dispatch did not fail.
C1_VerifyReflectsDispatch ==
    (valid # <<>> /\ call[0].pc = "done") => (valid[1] <=> ~Failed(call[0]))

\* ---- C2 ---------------------------------------------------------------------
\* C2 (as claimed): the default credential is set, and a caller's dispatch is
\* issued, only after the verification dispatch has succeeded.
C2_CredentialOnlyAfterVerified ==
    (API_KEY # None \/ \E c \in Callers : call[c].pc # "idle") => Succeeded(call[0])

\* ---- C3 ---------------------------------------------------------------------
\* C3: when the most recently completed dispatch succeeded on a path with
\* ttl > 0, a dispatch of the same path and ttl issued next, less than ttl
\* seconds after the entry's timestamp, completes at once with the same
\* result and without a call of fetch.
C3_SecondDispatchServedFromCache ==
    [][\A c1, c2 \in Callers :
          ( /\ c1 # c2
            /\ lastDone = c1
            /\ Succeeded(call[c1])
            /\ call[c1].ttl > 0
            /\ Issued(c2)
            /\ call'[c2].path = call[c1].path
            /\ call'[c2].ttl = call[c1].ttl
            /\ now - cache[call[c1].path].time < MsPerSecond * call[c1].ttl )
          => ( /\ call'[c2].pc = "done"
               /\ call'[c2].out = "hit"
               /\ call'[c2].result = call[c1].result
               /\ call'[c2].fetches = 0 )]_vars

C3_Witness ==
    \E c1, c2 \in Callers :
        /\ c1 # c2
        /\ lastDone = c2
        /\ call[c1].pc = "done" /\ call[c1].out = "ok" /\ call[c1].ttl > 0
        /\ call[c2].pc = "done" /\ call[c2].out = "hit"
        /\ call[c2].path = call[c1].path /\ call[c2].ttl = call[c1].ttl
        /\ call[c2].result = call[c1].result
        /\ cache[call[c1].path].time < now
        /\ now - cache[call[c1].path].time < MsPerSecond * call[c1].ttl

\* ---- C4 ---------------------------------------------------------------------
\* C4: while a dispatch is in the retry driver it has called fetch once more
\* than it has seen fetch fail, and never more than 10 times; it fails with the
\* transport-exhausted error only out of the 10th call of fetch, and that step
\* leaves the cache as it was; a failure of the 10th call ends the dispatch.
C4_ExhaustedAfterExactlyTen ==
    [][\A c \in Slots :
          call[c].pc = "fetch" =>
             /\ call[c].fetches = call[c].tries + 1
             /\ call[c].fetches <= MaxTries
             /\ (call'[c].err = TransportExhausted =>
                    /\ call[c].fetches = MaxTries
                    /\ Failed(call'[c])
                    /\ cache' = cache)
             /\ (call'[c].pc = "fetch" => call'[c].fetches <= MaxTries)
             /\ ((call[c].fetches = MaxTries /\ call'[c] # call[c] /\ call'[c].status = 0)
                    => call'[c].err = TransportExhausted)]_vars

C4_Witness ==
    \E c \in Callers :
        /\ Failed(call[c])
        /\ call[c].err = TransportExhausted
        /\ call[c].status = 0
        /\ cache[call[c].path] = NoEntry

\* ---- C5 ---------------------------------------------------------------------
\* C5: the step in which a dispatch obtains a response whose status is not a
\* success status ends the dispatch with the API error that carries its path
\* and that status, and calls fetch no more.
C5_BadStatusFailsAtOnce ==
    [][\A c \in Slots :
          (call[c].pc = "fetch" /\ call'[c].status # 0 /\ ~SuccessStatus(call'[c].status))
          => ( /\ Failed(call'[c])
               /\ call'[c].err = ApiError(call[c].path, call'[c].status)
               /\ call'[c].fetches = 0 )]_vars

C5_Witness ==
    \E c \in Callers :
        /\ Failed(call[c])
        /\ call[c].status = 401
        /\ call[c].err = ApiError(call[c].path, 401)

\* ---- C6 ---------------------------------------------------------------------
\* C6 (as claimed): of two dispatches of one path with ttl 0 that complete one
\* after the other, neither is served without a call of fetch, and a dispatch
\* with ttl 0 completes without changing the cache.
C6_TtlZeroAlwaysFetches ==
    [][/\ \A c \in Slots : (Completed(c) /\ call'[c].ttl = 0) => cache' = cache
       /\ \A c1, c2 \in Callers :
             ( /\ c1 # c2
               /\ lastDone = c1
               /\ call[c1].pc = "done" /\ call[c1].ttl = 0
               /\ Completed(c2)
               /\ call'[c2].ttl = 0
               /\ call'[c2].path = call[c1].path )
             => (call[c1].out # "hit" /\ call'[c2].out # "hit")]_vars

\* ---- C7 ---------------------------------------------------------------------
\* C7: a dispatch issued while its path has an entry is served that entry, with
\* no call of fetch, when it is issued strictly before storedAt + ttl, and
\* misses and calls fetch when it is issued strictly after storedAt + ttl.
C7_TtlBoundary ==
    [][\A c \in Callers :
          (Issued(c) /\ cache[call'[c].path] # NoEntry) =>
             LET e == cache[call'[c].path]
                 limit == e.time + MsPerSecond * call'[c].ttl
             IN  /\ now < limit =>
                       /\ call'[c].pc = "done" /\ call'[c].out = "hit"
                       /\ call'[c].result = e.result
                       /\ call'[c].fetches = 0
                 /\ now > limit =>
                       /\ call'[c].pc = "fetch" /\ call'[c].out = None
                       /\ call'[c].fetches = 1]_vars

C7_Witness ==
    \E c1, c2 \in Callers :
        /\ call[c1].pc = "done" /\ call[c1].out = "hit" /\ call[c1].ttl > 0
        /\ call[c2].pc = "fetch" /\ call[c2].tries = 0 /\ call[c2].ttl > 0
        /\ call[c2].path = call[c1].path
        /\ cache[call[c2].path] # NoEntry
        /\ now > cache[call[c2].path].time + MsPerSecond * call[c2].ttl

\* ---- C8 ---------------------------------------------------------------------
\* C8 (as claimed): a dispatch is served from the cache only when
\* now - storedAt < ttl, strictly, for its own ttl.
C8_ServedOnlyStrictlyWithinTtl ==
    [][\A c \in Callers :
          (Issued(c) /\ call'[c].out = "hit")
          => now - cache[call'[c].path].time < MsPerSecond * call'[c].ttl]_vars

\* ---- C9 ---------------------------------------------------------------------
\* C9: a dispatch completes in one of three ways: served the stored result of
\* an entry that is not expired (as line 65 computes it); returning the result
\* field of the envelope of the success-status response it obtained itself; or
\* failing with an error and no value.
C9_ResultOrFailure ==
    [][\A c \in Slots :
          Completed(c) =>
             LET p == call'[c].path
                 r == call'[c]
             IN  \/ /\ r.out = "hit"
                    /\ call[c].pc = "idle"
                    /\ cache[p] # NoEntry
                    /\ r.result = cache[p].result
                    /\ ~(cache[p].time < now - MsPerSecond * r.ttl)
                 \/ /\ r.out = "ok"
                    /\ call[c].pc = "json"
                    /\ SuccessStatus(r.status)
                    /\ r.body.kind = "json"
                    /\ r.result = r.body.result
                 \/ /\ r.out = "error"
                    /\ r.result = None
                    /\ r.err # NoErr]_vars

C9_Witness ==
    \E c \in Callers :
        /\ Failed(call[c])
        /\ call[c].result = None
        /\ cache[call[c].path] # NoEntry
        /\ cache[call[c].path].time < now - MsPerSecond * call[c].ttl

\* ---- C10 --------------------------------------------------------------------
\* C10: when every call of fetch and every body read settles, a dispatch in
\* flight is eventually completed, unless the process has exited; and no
\* dispatch sees more than 10 calls of fetch fail.
C10_EveryDispatchTerminates ==
    /\ \A c \in LiveSlots :
          (call[c].pc \in {"fetch", "json"}) ~> (call[c].pc = "done" \/ main = "exited")
    /\ [](\A c \in Slots : call[c].tries < MaxTries)

C10_Witness ==
    /\ main = "ready"
    /\ Failed(call[1])
    /\ call[1].err = TransportExhausted
    /\ Succeeded(call[0])

\* ---- C12 --------------------------------------------------------------------
\* C12: the step in which a dispatch obtains its first response, whatever the
\* status, ends the retry driver: k < 10 calls of fetch had failed, k + 1 calls
\* were made, and the dispatch goes on with that response (to the body read on
\* a success status, to the API error carrying that status otherwise).
ObtainsResponse(c) == call[c].pc = "fetch" /\ call[c].status = 0 /\ call'[c].status # 0

C12_StopsAtFirstResponse ==
    [][\A c \in Slots :
          ObtainsResponse(c) =>
             /\ call[c].tries < MaxTries
             /\ call[c].fetches = call[c].tries + 1
             /\ call'[c].pc \in {"json", "done"}
             /\ call'[c].fetches = 0 /\ call'[c].tries = 0
             /\ call'[c].status \in Statuses
             /\ (call'[c].pc = "json") <=> SuccessStatus(call'[c].status)
             /\ (call'[c].pc = "done") =>
                    call'[c].err = ApiError(call[c].path, call'[c].status)]_vars

\* One dispatch has seen three calls of fetch fail and is in its fourth; another
\* was ended by a response with an error status.
C12_Witness ==
    \E c1, c2 \in Slots :
        /\ call[c1].pc = "fetch" /\ call[c1].tries = 3 /\ call[c1].fetches = 4
        /\ Failed(call[c2]) /\ call[c2].status = 500

\* ---- C13 --------------------------------------------------------------------
\* C13: no step of a dispatch with ttl 0 (its issue, a failed or answered call
\* of fetch, its body read, its completion with a result or an error) changes
\* the cache store: a prior entry keeps its result and its timestamp.
StepOf(c) == call'[c] # call[c] /\ call'[c].pc # "idle"

C13_TtlZeroLeavesCache ==
    [][\A c \in Slots : (StepOf(c) /\ call'[c].ttl = 0) => cache' = cache]_vars

\* A dispatch with ttl 0 fetched a result that differs from the entry its path
\* had before and still has, with a timestamp in the past.
C13_Witness ==
    \E c \in Callers :
        /\ call[c].pc = "done" /\ call[c].out = "ok" /\ call[c].ttl = 0
        /\ lastDone = c
        /\ cache[call[c].path] # NoEntry
        /\ cache[call[c].path].result # call[c].result
        /\ cache[call[c].path].time < now

\* ---- C14 --------------------------------------------------------------------
\* C14: a path that has an entry keeps having one; an entry changes only in the
\* step that completes a successful fetch of its path with ttl > 0, and then to
\* that dispatch's result with the current timestamp; and every such step does
\* overwrite it.
StoresIn(c, p) ==
    /\ Completed(c)
    /\ call'[c].out = "ok"
    /\ call'[c].ttl > 0
    /\ call'[c].path = p

C14_EntriesOnlyOverwritten ==
    [][\A p \in AllPaths :
          /\ cache[p] # NoEntry => cache'[p] # NoEntry
          /\ cache'[p] # cache[p] =>
                \E c \in Slots :
                   StoresIn(c, p) /\ cache'[p] = [result |-> call'[c].result, time |-> now]
          /\ \A c \in Slots :
                StoresIn(c, p) => cache'[p] = [result |-> call'[c].result, time |-> now]]_vars

\* An entry stored at the start of the clock had expired and was overwritten by
\* a later successful fetch with another result.
C14_Witness ==
    \E c1, c2 \in Callers :
        /\ c1 # c2
        /\ call[c1].pc = "done" /\ call[c1].out = "ok" /\ call[c1].ttl > 0
        /\ call[c2].pc = "done" /\ call[c2].out = "ok" /\ call[c2].ttl > 0
        /\ call[c1].path = call[c2].path
        /\ call[c1].result # call[c2].result
        /\ lastDone = c2
        /\ now > MsPerSecond * MaxTtl
        /\ cache[call[c2].path] = [result |-> call[c2].result, time |-> now]

\* ---- C15 --------------------------------------------------------------------
\* C15: a dispatch issued for a path that has no entry, while another dispatch
\* of that path is in flight, misses and calls fetch itself, and the one in
\* flight goes on unchanged.
InFlight(r) == r.pc \in {"fetch", "json"}

C15_NoCoalescing ==
    [][\A c1, c2 \in Callers :
          ( /\ c1 # c2
            /\ InFlight(call[c1])
            /\ Issued(c2)
            /\ call'[c2].path = call[c1].path
            /\ cache[call[c1].path] = NoEntry )
          => ( /\ call'[c2].pc = "fetch"
               /\ call'[c2].fetches = 1
               /\ call'[c1] = call[c1] )]_vars

\* Two dispatches of one uncached path, with ttl > 0, are both in a call of fetch.
C15_Witness ==
    /\ call[1].pc = "fetch" /\ call[2].pc = "fetch"
    /\ call[1].path = call[2].path
    /\ call[1].ttl > 0 /\ call[2].ttl > 0
    /\ call[1].fetches >= 1 /\ call[2].fetches >= 1
    /\ cache[call[1].path] = NoEntry

\* ---- C16 --------------------------------------------------------------------
\* C16: the step that completes a successful fetch with ttl > 0 sets the entry
\* of its path to exactly its own result, whatever entry another dispatch
\* stored before; so while that dispatch is the last to have completed, the
\* entry holds its result, which is one whole result of a response.
C16_LastWriteWins ==
    [][\A c \in Callers :
          /\ (Completed(c) /\ call'[c].out = "ok" /\ call'[c].ttl > 0) =>
                cache'[call'[c].path] = [result |-> call'[c].result, time |-> now]
          /\ (lastDone = c /\ call[c].pc = "done" /\ call[c].out = "ok" /\ call[c].ttl > 0) =>
                /\ cache[call[c].path].result = call[c].result
                /\ cache[call[c].path].result \in Results]_vars

\* Two fetches of one path with ttl > 0 completed at the start of the clock with
\* different results: the second was issued before the first stored its result
\* (it would have been served it otherwise), and the entry holds the result of
\* the one that completed last.
C16_Witness ==
    \E c1, c2 \in Callers :
        /\ c1 # c2
        /\ now = 0
        /\ call[c1].pc = "done" /\ call[c1].out = "ok" /\ call[c1].ttl > 0
        /\ call[c2].pc = "done" /\ call[c2].out = "ok" /\ call[c2].ttl > 0
        /\ call[c1].path = call[c2].path
        /\ call[c1].result # call[c2].result
        /\ lastDone = c2
        /\ cache[call[c2].path].result = call[c2].result

\* ---- C17 --------------------------------------------------------------------
\* C17 (as claimed): when verify has yielded its boolean, the dispatch it
\* started has settled, a failure of it is the `false` verify yielded, and the
\* process is not terminated by it afterwards.
C17_FailureHandledInsideVerify ==
    valid # <<>> =>
       /\ call[0].pc = "done"
       /\ Failed(call[0]) => ~valid[1]
       /\ ~(valid[1] /\ main = "exited")

\* ---- C18 --------------------------------------------------------------------
\* C18: the step that reads the JSON envelope of a success-status response
\* completes the dispatch with the envelope's result field, whatever its
\* success flag, and with ttl > 0 stores that result under the path.
C18_EnvelopeFlagIgnored ==
    [][\A c \in Slots :
          (call[c].pc = "json" /\ Completed(c) /\ call'[c].body.kind = "json") =>
             LET r == call'[c] IN
             /\ SuccessStatus(r.status)
             /\ r.out = "ok"
             /\ r.result = r.body.result
             /\ r.ttl > 0 => cache'[r.path] = [result |-> r.body.result, time |-> now]]_vars

\* A dispatch with ttl > 0 returned and stored the result of an envelope that
\* reports success = false.
C18_Witness ==
    \E c \in Callers :
        /\ call[c].pc = "done" /\ call[c].out = "ok" /\ call[c].ttl > 0
        /\ call[c].status = 200
        /\ call[c].body.kind = "json" /\ ~call[c].body.success
        /\ call[c].result = call[c].body.result
        /\ cache[call[c].path].result = call[c].body.result

\* ---- C19 --------------------------------------------------------------------
\* C19: every entry holds a result; an entry is written only by the step that
\* reads the JSON envelope of a success-status response obtained for that path
\* by a dispatch with ttl > 0, and holds that envelope's result; the step that
\* fails a dispatch leaves the whole store unchanged; the verification path
\* never has an entry.
C19_CacheHoldsFetchedResults ==
    [][/\ cache[VerifyPath] = NoEntry
       /\ \A p \in AllPaths :
             /\ cache[p] # NoEntry => cache[p].result \in Results
             /\ cache'[p] # cache[p] =>
                   \E c \in Slots :
                      /\ call[c].pc = "json" /\ Completed(c)
                      /\ call'[c].path = p /\ call'[c].ttl > 0
                      /\ SuccessStatus(call'[c].status)
                      /\ call'[c].body.kind = "json"
                      /\ cache'[p].result = call'[c].body.result
       /\ \A c \in Slots : (Completed(c) /\ call'[c].out = "error") => cache' = cache]_vars

\* A dispatch with ttl > 0 has failed beside an entry of its path, and the
\* verification dispatch has completed with a result.
C19_Witness ==
    \E c \in Callers :
        /\ Failed(call[c])
        /\ call[c].err \in {TransportExhausted, ParseError, ApiError(call[c].path, 500)}
        /\ call[c].ttl > 0
        /\ cache[call[c].path] # NoEntry
        /\ call[0].pc = "done" /\ call[0].out = "ok"
        /\ cache[VerifyPath] = NoEntry

\* ---- C11 --------------------------------------------------------------------
\* C11: whether a dispatch is served from the cache, and with what, is decided
\* by its path and ttl, the clock and the store alone, whatever its method,
\* headers, body and token are; so a dispatch whose method or token differs
\* from those of the dispatch that stored the entry is served that dispatch's
\* result without a call of fetch.
C11_HitIgnoresMethodAndToken ==
    [][/\ \A c \in Callers :
             Issued(c) =>
                LET r == call'[c]
                    e == cache[r.path]
                    usable == e # NoEntry /\ e.time >= now - MsPerSecond * r.ttl
                IN  /\ (r.out = "hit") <=> usable
                    /\ usable => (r.pc = "done" /\ r.result = e.result /\ r.fetches = 0)
       /\ \A c1, c2 \in Callers :
             ( /\ c1 # c2
               /\ lastDone = c1
               /\ call[c1].pc = "done" /\ call[c1].out = "ok" /\ call[c1].ttl > 0
               /\ Issued(c2)
               /\ call'[c2].path = call[c1].path
               /\ call'[c2].method # call[c1].method \/ call'[c2].token # call[c1].token
               /\ now - cache[call[c1].path].time <= MsPerSecond * call'[c2].ttl )
             => ( /\ call'[c2].pc = "done" /\ call'[c2].out = "hit"
                  /\ call'[c2].result = call[c1].result
                  /\ call'[c2].fetches = 0 )]_vars

\* A POST with the caller's own token is served what a GET with the default
\* credential fetched and stored.
C11_Witness ==
    \E c1, c2 \in Callers :
        /\ c1 # c2
        /\ call[c1].pc = "done" /\ call[c1].out = "ok" /\ call[c1].ttl > 0
        /\ call[c1].method = "GET" /\ call[c1].token = None
        /\ call[c2].pc = "done" /\ call[c2].out = "hit"
        /\ call[c2].method = "POST" /\ call[c2].token = "other"
        /\ call[c2].path = call[c1].path
        /\ call[c2].result = call[c1].result
        /\ lastDone = c2

\* ---- C20 --------------------------------------------------------------------
\* C20: a dispatch with ttl B issued for the path of an entry that a dispatch
\* with ttl A stored is served it exactly when storedAt >= now - 1000 * B,
\* whatever A is, and calls fetch otherwise.
C20_ExpiryUsesReadersTtl ==
    [][\A c1, c2 \in Callers :
          ( /\ c1 # c2
            /\ lastDone = c1
            /\ call[c1].pc = "done" /\ call[c1].out = "ok" /\ call[c1].ttl > 0
            /\ Issued(c2)
            /\ call'[c2].path = call[c1].path )
          => LET storedAt == cache[call[c1].path].time
                 B == call'[c2].ttl
             IN  IF storedAt >= now - MsPerSecond * B
                 THEN /\ call'[c2].pc = "done" /\ call'[c2].out = "hit"
                      /\ call'[c2].result = call[c1].result
                 ELSE /\ call'[c2].pc = "fetch" /\ call'[c2].fetches = 1]_vars

\* A reader with a larger ttl was served an entry that is past its writer's ttl.
C20_Witness ==
    \E c1, c2 \in Callers :
        /\ c1 # c2
        /\ call[c1].pc = "done" /\ call[c1].out = "ok" /\ call[c1].ttl > 0
        /\ call[c2].pc = "done" /\ call[c2].out = "hit"
        /\ call[c2].path = call[c1].path
        /\ call[c2].ttl > call[c1].ttl
        /\ lastDone = c2
        /\ cache[call[c1].path].result = call[c1].result
        /\ now - cache[call[c1].path].time > MsPerSecond * call[c1].ttl

\* A reader with a smaller ttl fetches again although the entry is still within
\* its writer's ttl.
C20_SmallerReaderRefetches ==
    \E c1, c2 \in Callers :
        /\ c1 # c2
        /\ call[c1].pc = "done" /\ call[c1].out = "ok" /\ call[c1].ttl > 0
        /\ call[c2].pc = "fetch" /\ call[c2].fetches = 1
        /\ call[c2].path = call[c1].path
        /\ call[c2].ttl < call[c1].ttl
        /\ lastDone = c1
        /\ now - cache[call[c1].path].time < MsPerSecond * call[c1].ttl

====
